---- MODULE Spec2Model ----
\* Model of roc's netio::UDPReceiver (roc_netio/target_uv/roc_netio/udp_receiver.h
\* and its implementation): the lifecycle handlers start/stop/remove/close_cb_, the
\* receive path alloc_cb_/recv_cb_, and the part of the libuv event loop, the buffer
\* pool, the packet pool, the intrusive list and the downstream writer they touch.
EXTENDS Integers, Sequences, FiniteSets, TLC

\* ---------------------------------------------------------------- bounds
NumBuffers == 2       \* buffers of the pool this receiver can lease
BufSize == 2          \* capacity (bytes) of one pool buffer
MaxDatagrams == 2     \* completion callbacks explored
MaxCloses == 2        \* uv_close() requests the loop may have outstanding

\* ---------------------------------------------------------------- values
NULL == "NULL"
Containers == {"c1", "c2"}
Buffers == 1..NumBuffers

EmptyAddress == [valid |-> FALSE, port |-> 0]
Addr(p) == [valid |-> TRUE, port |-> p]

BindPorts == {0, 5000}            \* requested ports (0 = ephemeral)
OsPorts == {40001}                \* ports the OS may assign to a port-0 bind
NullSockaddr == [family |-> "NULL", port |-> 0]
Sockaddrs == {[family |-> "AF_INET", port |-> 7001]}
SuggestedSizes == {BufSize - 1, BufSize + 1}
Nreads == {-1, 0, 1, BufSize, BufSize + 1}
RecvFlags == {{}, {"UV_UDP_PARTIAL"}}
NullReadOutcomes == {"crash", "panic", "go"}
StartFailures == {"none", "init", "bind", "getsockname", "addrlen", "recv_start"}

NoBuf == [pending |-> FALSE, base |-> 0, len |-> 0]
NullBuf == [pending |-> TRUE, base |-> 0, len |-> 0]
Min(a, b) == IF a < b THEN a ELSE b

VARIABLES
  handle_initialized_,  \* bool handle_initialized_
  handle_data,          \* handle_.data: "this" or NULL
  address_,             \* packet::Address address_
  container_,           \* core::List<UDPReceiver>* container_
  packet_counter_,      \* unsigned packet_counter_ (MaxDatagrams keeps it far from UINT_MAX)
  uv_state,             \* libuv's view of handle_: uninit / open / closing / closed
  uv_reading,           \* the receive subscription (uv_udp_recv_start .. recv_stop)
  uv_closing,           \* callbacks of the uv_close() requests not yet finished
  uv_reinit,            \* handle_ was uv_udp_init()ed again with a close outstanding
  uv_buf,               \* the uv_buf_t handed out by alloc_cb_ and not yet completed
  ref,                  \* reference count of every pool buffer (0 = in the pool)
  written,              \* packets passed to writer_.write(), in order
  held,                 \* indices of written packets the downstream still holds
  member,               \* the list the receiver is linked into, or "none"
  ownerRef,             \* the owner still holds a SharedPtr to the receiver
  destroyed,            \* the destructor has run
  panic,                \* "none", or why the process aborted
  removeCalls,          \* number of container.remove(*this) calls so far
  cbRemoves,            \* those of them made by close_cb_
  closeCbs,             \* close_cb_ deliveries since the last successful start()
  delivered,            \* number of completion callbacks delivered so far
  seen_ref,             \* getref() as the last recv_cb_ read it at entry (0: none yet)
  bind_port,            \* the port the owner binds this receiver to (0 = ephemeral)
  lastOp                \* the operation that produced this state

vars == <<handle_initialized_, handle_data, address_, container_, packet_counter_,
          uv_state, uv_reading, uv_closing, uv_reinit, uv_buf, ref,
          written, held, member, ownerRef, destroyed, panic,
          removeCalls, cbRemoves, closeCbs, delivered, seen_ref, bind_port, lastOp>>

\* The whole state as one record, so that handlers compose sequentially.
Cur ==
  [handle_initialized_ |-> handle_initialized_, handle_data |-> handle_data,
   address_ |-> address_, container_ |-> container_,
   packet_counter_ |-> packet_counter_,
   bind_address |-> EmptyAddress,   \* start()'s in/out argument
   ret |-> FALSE,                   \* start()'s return value
   uv_state |-> uv_state, uv_reading |-> uv_reading, uv_closing |-> uv_closing,
   uv_reinit |-> uv_reinit, uv_buf |-> uv_buf, ref |-> ref, written |-> written,
   held |-> held, member |-> member, ownerRef |-> ownerRef, destroyed |-> destroyed,
   panic |-> panic, removeCalls |-> removeCalls, cbRemoves |-> cbRemoves,
   closeCbs |-> closeCbs, delivered |-> delivered, seen_ref |-> seen_ref]

Become(s, op) ==
  /\ handle_initialized_' = s.handle_initialized_
  /\ handle_data' = s.handle_data
  /\ address_' = s.address_
  /\ container_' = s.container_
  /\ packet_counter_' = s.packet_counter_
  /\ uv_state' = s.uv_state
  /\ uv_reading' = s.uv_reading
  /\ uv_closing' = s.uv_closing
  /\ uv_reinit' = s.uv_reinit
  /\ uv_buf' = s.uv_buf
  /\ ref' = s.ref
  /\ written' = s.written
  /\ held' = s.held
  /\ member' = s.member
  /\ ownerRef' = s.ownerRef
  /\ destroyed' = s.destroyed
  /\ panic' = s.panic
  /\ removeCalls' = s.removeCalls
  /\ cbRemoves' = s.cbRemoves
  /\ closeCbs' = s.closeCbs
  /\ delivered' = s.delivered
  /\ seen_ref' = s.seen_ref
  /\ bind_port' = bind_port
  /\ lastOp' = op

\* roc_panic(): the process aborts; nothing runs afterwards.
Panic(s, why) == [s EXCEPT !.panic = why]

\* ---------------------------------------------------------------- construction
Init ==
  /\ handle_initialized_ = FALSE
  /\ handle_data = NULL
  /\ address_ = EmptyAddress
  /\ container_ = NULL
  /\ packet_counter_ = 0
  /\ uv_state = "uninit"
  /\ uv_reading = FALSE
  /\ uv_closing = <<>>
  /\ uv_reinit = FALSE
  /\ uv_buf = NoBuf
  /\ ref = [b \in Buffers |-> 0]
  /\ written = <<>>
  /\ held = {}
  /\ member = "c1"
  /\ ownerRef = TRUE
  /\ destroyed = FALSE
  /\ panic = "none"
  /\ removeCalls = 0
  /\ cbRemoves = 0
  /\ closeCbs = 0
  /\ delivered = 0
  /\ seen_ref = 0
  /\ bind_port \in BindPorts
  /\ lastOp = "new"

\* ---------------------------------------------------------------- lifecycle
\* A destructor that does not look at handle_initialized_.
Destructor_NoCheck(s) == [s EXCEPT !.destroyed = TRUE]

\* ~UDPReceiver()
Destructor(s) ==
  IF s.handle_initialized_
  THEN Panic(s, "destructor: not closed")
  ELSE [s EXCEPT !.destroyed = TRUE]

\* core::List<UDPReceiver>::remove(*this): unlinking an element that is not in
\* the list is a contract violation; the list's reference is dropped, and the
\* last reference dropped destroys the receiver.
ListRemove(s, c) ==
  LET s1 == [s EXCEPT !.removeCalls = @ + 1] IN
  IF s1.member # c
  THEN Panic(s1, "list: not a member")
  ELSE LET s2 == [s1 EXCEPT !.member = "none"] IN
       IF s2.ownerRef THEN s2 ELSE Destructor(s2)

\* uv_is_closing(): the handle is closing or closed.
uv_is_closing(s) == s.uv_state \in {"closing", "closed"}

\* UDPReceiver::init_() after uv_udp_init() succeeded.
init_(s) ==
  [s EXCEPT !.uv_state = "open",
            !.uv_reinit = (s.uv_reinit \/ s.uv_closing # <<>>),
            !.handle_data = "this",
            !.handle_initialized_ = TRUE]

\* close_() that requests the close but leaves handle_initialized_ set.
close_KeepsFlag(s) ==
  IF ~s.handle_initialized_ THEN s
  ELSE IF uv_is_closing(s) THEN s
  ELSE [s EXCEPT !.handle_data = NULL,
                 !.uv_state = "closing",
                 !.uv_reading = FALSE,
                 !.uv_closing = Append(@, NULL)]

\* UDPReceiver::close_()
close_(s) ==
  IF ~s.handle_initialized_ THEN s
  ELSE IF uv_is_closing(s) THEN s
  ELSE [s EXCEPT !.handle_data = NULL,
                 !.handle_initialized_ = FALSE,
                 !.uv_state = "closing",
                 !.uv_reading = FALSE,
                 !.uv_closing = Append(@, NULL)]

\* getsockname_() that leaves the requested address in bind_address.
Resolve_KeepsRequested(a, os) == a

\* UDPReceiver::getsockname_(): uv_udp_getsockname() writes the resolved address
\* into the caller's bind_address.
Resolve(a, os) == IF a.port = 0 THEN Addr(os) ELSE Addr(a.port)

\* UDPReceiver::start_() after uv_udp_recv_start() succeeded.
start_(s) ==
  [s EXCEPT !.uv_reading = TRUE, !.address_ = s.bind_address, !.closeCbs = 0]

\* UDPReceiver::start(bind_address), with a failure injected at step `fail`.
start(s, port, os, fail) ==
  LET s0 == [s EXCEPT !.bind_address = Addr(port), !.ret = FALSE] IN
  IF fail = "init" THEN s0
  ELSE LET s1 == init_(s0) IN
  IF fail = "bind" THEN close_(s1)
  ELSE IF fail = "getsockname" THEN close_(s1)
  ELSE LET s2 == [s1 EXCEPT !.bind_address = Resolve(s1.bind_address, os)] IN
  IF fail = "addrlen" THEN close_(s2)
  ELSE IF fail = "recv_start" THEN close_(s2)
  ELSE [start_(s2) EXCEPT !.ret = TRUE]

\* stop() that does not ask whether a close is already in flight.
stop_NoClosingCheck(s) ==
  IF ~s.handle_initialized_ THEN s
  ELSE [s EXCEPT !.uv_reading = FALSE,
                 !.uv_state = "closing",
                 !.uv_closing = Append(@, "close_cb_")]

\* UDPReceiver::stop()
stop(s) ==
  IF ~s.handle_initialized_ THEN s
  ELSE IF uv_is_closing(s) THEN s
  ELSE [s EXCEPT !.uv_reading = FALSE,
                 !.uv_state = "closing",
                 !.uv_closing = Append(@, "close_cb_")]

\* remove() without the guard against a container that is already recorded.
remove_NoGuard(s, c) ==
  IF s.handle_initialized_
  THEN [stop(s) EXCEPT !.container_ = c, !.address_ = EmptyAddress]
  ELSE ListRemove(s, c)

\* remove() that records the container and clears address_ without stop().
remove_NoStop(s, c) ==
  IF s.container_ # NULL THEN Panic(s, "remove: container_ is set")
  ELSE IF s.handle_initialized_
       THEN [s EXCEPT !.container_ = c, !.address_ = EmptyAddress]
       ELSE ListRemove(s, c)

\* remove() that records the container but leaves address_ as it is.
remove_KeepsAddress(s, c) ==
  IF s.container_ # NULL THEN Panic(s, "remove: container_ is set")
  ELSE IF s.handle_initialized_
       THEN [stop(s) EXCEPT !.container_ = c]
       ELSE ListRemove(s, c)

\* UDPReceiver::remove(container)
remove(s, c) ==
  IF s.container_ # NULL THEN Panic(s, "remove: container_ is set")
  ELSE IF s.handle_initialized_
       THEN [stop(s) EXCEPT !.container_ = c, !.address_ = EmptyAddress]
       ELSE ListRemove(s, c)

\* UDPReceiver::address()
address(s) == s.address_

\* close_cb_() that takes the receiver out of its container before it clears
\* handle_initialized_.
close_cb_RemoveFirst(s) ==
  IF s.handle_data = NULL THEN Panic(s, "crash")
  ELSE LET s1 == [s EXCEPT !.closeCbs = @ + 1]
           s2 == IF s1.container_ # NULL
                 THEN ListRemove([s1 EXCEPT !.cbRemoves = @ + 1], s1.container_)
                 ELSE s1
       IN IF s2.panic # "none" THEN s2
          ELSE [s2 EXCEPT !.handle_initialized_ = FALSE]

\* UDPReceiver::close_cb_(handle)
close_cb_(s) ==
  IF s.handle_data = NULL THEN Panic(s, "crash")
  ELSE LET s1 == [s EXCEPT !.handle_initialized_ = FALSE, !.closeCbs = @ + 1] IN
       IF s1.container_ # NULL
       THEN ListRemove([s1 EXCEPT !.cbRemoves = @ + 1], s1.container_)
       ELSE s1

\* ---------------------------------------------------------------- receive path
\* packet::Address::set_saddr(): IPv4 and IPv6 socket addresses convert, any
\* other family leaves the address empty.
set_saddr(sa) ==
  IF sa.family \in {"AF_INET", "AF_INET6"} THEN Addr(sa.port) ELSE EmptyAddress

\* alloc_cb_() that forgets the reference held for the pending I/O.
alloc_cb_NoIncref(s, size, b) ==
  IF b = 0
  THEN [s EXCEPT !.uv_buf = NullBuf]
  ELSE LET r1 == s.ref[b] + 1
           r3 == r1 - 1
       IN [s EXCEPT !.ref[b] = r3,
                    !.uv_buf = [pending |-> TRUE, base |-> b,
                                len |-> Min(size, BufSize)]]

\* UDPReceiver::alloc_cb_(handle, size, buf); b is the buffer the pool hands out,
\* 0 when the pool is exhausted.
alloc_cb_(s, size, b) ==
  IF b = 0
  THEN [s EXCEPT !.uv_buf = NullBuf]
  ELSE LET r1 == s.ref[b] + 1      \* SharedPtr bp
           r2 == r1 + 1             \* bp->incref()
           r3 == r2 - 1             \* bp goes out of scope
       IN [s EXCEPT !.ref[b] = r3,
                    !.uv_buf = [pending |-> TRUE, base |-> b,
                                len |-> Min(size, BufSize)]]

\* A slice that spans the whole buffer, whatever range was asked for.
Slice_WholeBuffer(b, from, to) == [buf |-> b, from |-> 0, to |-> BufSize]

\* core::Slice<uint8_t>(*bp, from, to)
Slice(b, from, to) == [buf |-> b, from |-> from, to |-> to]

\* flags & UV_UDP_PARTIAL
is_partial(flags) == "UV_UDP_PARTIAL" \in flags

\* A counter that is not incremented.
next_counter_Same(n) == n

\* self.packet_counter_++
next_counter(n) == n + 1

\* UDPReceiver::recv_cb_(handle, nread, buf, sockaddr, flags). pkt_ok: the packet
\* pool has a packet; ub: what the read through container_of(NULL) does.
recv_cb_(s, nread, sockaddr, flags, pkt_ok, ub) ==
  LET src_addr == IF sockaddr = NullSockaddr THEN EmptyAddress ELSE set_saddr(sockaddr)
      b == s.uv_buf.base
      s0 == [s EXCEPT !.uv_buf = NoBuf, !.delivered = @ + 1]
  IN
  IF b = 0
  THEN \* bp = container_of(NULL): bp->getref() reads outside any object
       IF ub = "crash" THEN Panic([s0 EXCEPT !.seen_ref = 0], "crash")
       ELSE IF ub = "panic" THEN Panic([s0 EXCEPT !.seen_ref = 0], "refcount")
       ELSE \* the word read happened to be 2: decref() and ~SharedPtr write to
            \* memory that is no buffer; what the process does next is not modelled
            Panic([s0 EXCEPT !.seen_ref = 2], "heap corrupted")
  ELSE
  LET entry == s0.ref[b] + 1       \* SharedPtr bp = container_of(buf->base)
      se == [s0 EXCEPT !.ref[b] = entry, !.seen_ref = entry]
  IN
  IF entry # 2 THEN Panic(se, "refcount")
  ELSE
  LET s1 == [se EXCEPT !.ref[b] = @ - 1]          \* bp->decref()
      drop1 == [s1 EXCEPT !.ref[b] = @ - 1]       \* return: bp goes out of scope
  IN
  IF nread < 0 THEN drop1
  ELSE IF nread = 0 THEN drop1
  ELSE IF sockaddr = NullSockaddr THEN Panic(s1, "null source address")
  ELSE IF is_partial(flags) THEN drop1
  ELSE
  LET s2 == [s1 EXCEPT !.packet_counter_ = next_counter(@)]
      drop2 == [s2 EXCEPT !.ref[b] = @ - 1]
  IN
  IF nread > BufSize THEN Panic(s2, "buffer size")
  ELSE IF ~pkt_ok THEN drop2
  ELSE
  LET pp == [flags |-> {"FlagUDP"},
             src_addr |-> src_addr,
             dst_addr |-> s2.address_,
             data |-> Slice(b, 0, nread),
             num |-> s2.packet_counter_,
             seq |-> s2.delivered]
      \* the slice holds a reference; bp goes out of scope
  IN [s2 EXCEPT !.ref[b] = (@ + 1) - 1,
                !.written = Append(@, pp),
                !.held = @ \cup {Len(s2.written) + 1}]

\* core::BufferPool: the pool hands out the first buffer of its free list.
PoolNext(r) ==
  LET free == {x \in Buffers : r[x] = 0} IN
  {x \in free : \A y \in free : x <= y}

\* ---------------------------------------------------------------- actions
\* Everything runs on the event loop thread; alloc_cb_ and recv_cb_ of one
\* datagram run back to back, so no other step comes between them.
Running == panic = "none" /\ ~destroyed
Quiet == Running /\ ~uv_buf.pending

StartStep(port, os, fail) ==
  /\ Quiet
  /\ ~handle_initialized_
  /\ Len(uv_closing) < MaxCloses
  /\ Become(start(Cur, port, os, fail),
            IF start(Cur, port, os, fail).ret THEN "start_ok" ELSE "start_failed")

Start ==
  \E os \in OsPorts, fail \in StartFailures : StartStep(bind_port, os, fail)

Stop ==
  /\ Quiet
  /\ Become(stop(Cur), "stop")

RemoveStep(c) ==
  /\ Quiet
  /\ Become(remove(Cur, c), "remove")

Remove == \E c \in Containers : RemoveStep(c)

\* The owner drops its SharedPtr; the last reference runs the destructor.
OwnerRelease ==
  /\ Quiet
  /\ ownerRef
  /\ Become(IF member = "none"
            THEN Destructor([Cur EXCEPT !.ownerRef = FALSE])
            ELSE [Cur EXCEPT !.ownerRef = FALSE],
            "release")

\* The event loop finishes the oldest uv_close() request and calls its callback.
\* A request whose handle was initialized again is finished on a handle that is
\* no longer closing: libuv's assertions abort, or the loop goes on and closes
\* whatever the handle now is. A request whose receiver was freed is finished
\* on freed memory.
UvFinishCloseStep(outcome) ==
  /\ panic = "none"
  /\ ~uv_buf.pending
  /\ uv_closing # <<>>
  /\ outcome = "abort" => (uv_reinit \/ destroyed)
  /\ LET cb == Head(uv_closing)
         s0 == Cur
         s1 == [s0 EXCEPT !.uv_closing = Tail(@),
                          !.uv_state = "closed",
                          !.uv_reading = FALSE,
                          !.uv_reinit = (@ /\ Tail(s0.uv_closing) # <<>>)]
     IN Become(IF outcome = "abort" THEN Panic(s0, "crash")
               ELSE IF s0.destroyed THEN Panic(s1, "heap corrupted")
               ELSE IF cb = NULL THEN s1
               ELSE close_cb_(s1),
               IF outcome = "abort" THEN "close_abort"
               ELSE IF cb = NULL THEN "close_done" ELSE "close_cb_")

UvFinishClose == \E outcome \in {"abort", "proceed"} : UvFinishCloseStep(outcome)

AllocStep(size, b) ==
  /\ Quiet
  /\ uv_state = "open"
  /\ uv_reading
  /\ delivered < MaxDatagrams
  /\ Become(alloc_cb_(Cur, size, b), "alloc")

AllocCb ==
  \E size \in SuggestedSizes, b \in {0} \cup PoolNext(ref) : AllocStep(size, b)

RecvStep(nread, sockaddr, flags, pkt_ok, ub) ==
  /\ Running
  /\ uv_buf.pending
  \* for an empty buffer libuv reports UV_ENOBUFS with no address and no flags
  /\ uv_buf.base = 0 => (nread = -1 /\ sockaddr = NullSockaddr /\ flags = {})
  /\ uv_buf.base # 0 => ub = "go"
  /\ Become(recv_cb_(Cur, nread, sockaddr, flags, pkt_ok, ub), "recv")

RecvCb ==
  \E nread \in Nreads, sockaddr \in Sockaddrs \cup {NullSockaddr},
     flags \in RecvFlags, pkt_ok \in BOOLEAN, ub \in NullReadOutcomes :
    RecvStep(nread, sockaddr, flags, pkt_ok, ub)

\* The downstream drops a packet it was given: the packet's slice releases the
\* buffer.
ReleaseStep(i) ==
  /\ panic = "none"
  /\ ~uv_buf.pending
  /\ i \in held
  /\ Become([Cur EXCEPT !.held = @ \ {i},
                        !.ref[written[i].data.buf] = @ - 1],
            "release_packet")

ReleasePacket == \E i \in 1..MaxDatagrams : ReleaseStep(i)

Next ==
  \/ Start
  \/ Stop
  \/ Remove
  \/ OwnerRelease
  \/ UvFinishClose
  \/ AllocCb
  \/ RecvCb
  \/ ReleasePacket

Spec == Init /\ [][Next]_vars

\* ---------------------------------------------------------------- states
Active == handle_initialized_ /\ uv_state = "open" /\ uv_reading
Closing == handle_initialized_ /\ uv_state = "closing"
SetupFailures == StartFailures \ {"none"}

\* ---------------------------------------------------------------- claims

\* C1 as stated: after a start() that failed at any setup step the receiver is as
\* newly constructed: handle not initialized, address() empty, no pending
\* container recorded.
C1_FailedStartLooksNew ==
  lastOp = "start_failed" =>
    /\ ~handle_initialized_
    /\ address(Cur) = EmptyAddress
    /\ container_ = NULL

\* C1 as amended: a start() that fails at any of the setup steps returns false
\* and leaves the handle not initialized and address(), the pending container
\* and the packet counter exactly as they were before the call (so a receiver
\* that was never started still looks newly constructed).
C1_FailedStartRollsBack ==
  [][\A os \in OsPorts, fail \in SetupFailures :
       StartStep(bind_port, os, fail) =>
         /\ lastOp' = "start_failed"
         /\ ~handle_initialized_'
         /\ ~uv_reading'
         /\ address_' = address_
         /\ container_' = container_
         /\ packet_counter_' = packet_counter_
         /\ (address_ = EmptyAddress /\ container_ = NULL /\ packet_counter_ = 0
               => address_' = EmptyAddress /\ container_' = NULL
                  /\ packet_counter_' = 0)]_vars

\* C1 witness: a start() failed after the handle had been initialized (steps
\* 2-4), on a receiver that had been started and stopped before.
C1_Witness ==
  /\ lastOp = "start_failed"
  /\ uv_closing # <<>>
  /\ address_ # EmptyAddress

\* C2: after remove(container) on an initialized receiver the receiver stays in
\* the container during the call and until the close-completion, and close_cb_
\* calls container.remove(receiver) exactly once however the receiver is used
\* afterwards (further stop(), later start()/stop() cycles and completions).
C2_DeferredRemovalExactlyOnce ==
  /\ [][\A c \in Containers :
          RemoveStep(c) /\ handle_initialized_ /\ container_ = NULL =>
            member' = member /\ removeCalls' = removeCalls]_vars
  /\ [](cbRemoves <= 1)

\* C3: stop() on a receiver whose handle is not initialized, or whose close is
\* already in flight, changes nothing and requests no close; between one
\* successful start() and the next, close_cb_ is delivered at most once.
C3_StopIdempotent ==
  /\ [][Stop /\ (~handle_initialized_ \/ uv_state \in {"closing", "closed"}) =>
          UNCHANGED <<handle_initialized_, handle_data, address_, container_,
                      packet_counter_, uv_state, uv_reading, uv_closing, uv_reinit,
                      uv_buf, ref, written, held, member, panic, removeCalls,
                      closeCbs>>]_vars
  /\ [](closeCbs <= 1)
  /\ [](Len(SelectSeq(uv_closing, LAMBDA cb : cb = "close_cb_")) <= 1)

\* C3 witness: stop() was called right after remove() had already requested the
\* close, and still exactly one close-completion is outstanding.
C3_Witness ==
  lastOp = "stop" /\ Closing /\ container_ # NULL /\ uv_closing = <<"close_cb_">>

\* C4 as stated: address() is non-empty only while the receiver is Active.
C4_AddressOnlyWhileActive ==
  address(Cur) # EmptyAddress => Active

\* The receiver has been handed off for deferred removal and not yet removed.
RemovalPending ==
  handle_initialized_ /\ container_ # NULL /\ member = container_

\* C4 as amended: address() is empty until the first successful start() and
\* becomes non-empty only by a successful start(); remove() on an initialized
\* receiver clears it, and it is empty from the return of that remove() until
\* the removal completes; stop() alone leaves it as it is, so it stays the bound
\* address through Closing and Closed.
C4_AddressClearedByRemoveOnly ==
  /\ [](uv_state = "uninit" => address(Cur) = EmptyAddress)
  /\ [](RemovalPending => address(Cur) = EmptyAddress)
  /\ [][/\ (address_' # address_ /\ address_' # EmptyAddress => lastOp' = "start_ok")
        /\ (address_' # address_ /\ address_' = EmptyAddress =>
              lastOp' = "remove" /\ handle_initialized_ /\ container_ = NULL)
        /\ (Stop => address_' = address_)]_vars

\* C4 witness: remove() has returned on an Active receiver whose close has not
\* completed yet.
C4_Witness ==
  lastOp = "remove" /\ Closing /\ RemovalPending /\ address(Cur) = EmptyAddress

\* The slices of downstream-held packets that reference buffer b.
SlicesOn(h, w, b) == Cardinality({i \in h : w[i].data.buf = b})

\* C5: when the buffer pool is exhausted alloc_cb_ reports an empty buffer, and
\* the completion callback the loop delivers for that empty buffer forwards
\* nothing, does not panic or crash, and leaves the receiver Active.
C5_EmptyBufferDropped ==
  /\ [][\A size \in SuggestedSizes : AllocStep(size, 0) =>
          uv_buf' = NullBuf /\ panic' = "none" /\ Active' /\ written' = written]_vars
  /\ [][uv_buf = NullBuf /\ lastOp' = "recv" =>
          panic' = "none" /\ Active' /\ written' = written]_vars

\* C6: every completion callback delivered for a leased buffer reads a
\* reference count of exactly 2 at entry (so the refcount panic never fires),
\* and on every outcome that does not panic the I/O pin is released: what is
\* left on the buffer is the slice of the packet just written, if any.
C6_RefcountTwoAtEntry ==
  [][lastOp' = "recv" /\ uv_buf.pending /\ uv_buf.base # 0 =>
       /\ seen_ref' = 2
       /\ panic' # "refcount"
       /\ (panic' = "none" =>
             ref'[uv_buf.base] = SlicesOn(held', written', uv_buf.base))
       /\ (panic' = "none" /\ written' = written => ref'[uv_buf.base] = 0)]_vars

\* C6 witness: a completion ran while an earlier datagram's buffer was still
\* held downstream, after a datagram in between had been dropped.
C6_Witness ==
  /\ lastOp = "recv" /\ panic = "none" /\ seen_ref = 2
  /\ delivered >= 2 /\ held # {} /\ delivered > Len(written)

\* C7: a clean, complete datagram of N > 0 bytes from source S, delivered to an
\* Active receiver bound at D while the packet pool has a packet, puts exactly
\* one packet on the writer: source S, destination D (the resolved bound
\* address), the UDP flag, and the bytes [0, N) of the leased buffer.
C7_PacketFields ==
  [][\A n \in {x \in Nreads : 0 < x /\ x <= BufSize}, sa \in Sockaddrs :
       RecvStep(n, sa, {}, TRUE, "go") /\ uv_buf.base # 0 =>
         /\ panic' = "none"
         /\ Len(written') = Len(written) + 1
         /\ SubSeq(written', 1, Len(written)) = written
         /\ LET pp == written'[Len(written')] IN
              /\ pp.src_addr = Addr(sa.port)
              /\ pp.dst_addr = address_
              /\ pp.dst_addr.valid
              /\ pp.dst_addr.port \in (IF bind_port = 0 THEN OsPorts ELSE {bind_port})
              /\ pp.flags = {"FlagUDP"}
              /\ pp.data = [buf |-> uv_buf.base, from |-> 0, to |-> n]]_vars

\* C7 witness: a one-byte datagram was forwarded from a buffer that could have
\* held more.
C7_Witness ==
  /\ lastOp = "recv" /\ written # <<>>
  /\ written[Len(written)].seq = delivered
  /\ written[Len(written)].data.to < BufSize

\* C8: remove() on a receiver that already recorded a pending container panics
\* and changes nothing else; the pending container, once set, never changes.
C8_DoubleRemovePanics ==
  /\ [][\A c \in Containers : RemoveStep(c) /\ container_ # NULL =>
          /\ panic' # "none"
          /\ UNCHANGED <<handle_initialized_, handle_data, address_, container_,
                         packet_counter_, uv_state, uv_reading, uv_closing,
                         uv_buf, ref, written, held, member, removeCalls>>]_vars
  /\ [][container_ # NULL => container_' = container_]_vars

\* C8 witness: the second remove() arrived while the first removal was pending.
C8_Witness ==
  /\ lastOp = "remove" /\ panic = "remove: container_ is set"
  /\ RemovalPending /\ Closing

\* The inputs of a completion callback that the receiver drops.
Dropped(n, sa, flags, pkt_ok) ==
  \/ n < 0
  \/ n = 0
  \/ n > 0 /\ sa # NullSockaddr /\ "UV_UDP_PARTIAL" \in flags
  \/ n > 0 /\ n <= BufSize /\ sa # NullSockaddr /\ flags = {} /\ ~pkt_ok

\* C9: a completion callback writes a packet only for nread > 0 with a source
\* address, no partial flag and a packet from the pool; an I/O error
\* (nread < 0), a zero-length read, a partial read and an exhausted packet pool
\* forward nothing, do not panic, and leave the handle initialized, the bound
\* address, the pending container and the receive subscription as they were.
C9_DropsLeaveReceiverActive ==
  [][\A n \in Nreads, sa \in Sockaddrs \cup {NullSockaddr}, flags \in RecvFlags,
        pkt_ok \in BOOLEAN, ub \in NullReadOutcomes :
       RecvStep(n, sa, flags, pkt_ok, ub) =>
         /\ (written' # written =>
               n > 0 /\ sa # NullSockaddr /\ flags = {} /\ pkt_ok)
         /\ (Dropped(n, sa, flags, pkt_ok) =>
               /\ written' = written
               /\ panic' = "none"
               /\ handle_initialized_' /\ Active'
               /\ UNCHANGED <<handle_initialized_, address_, container_,
                              uv_state, uv_reading, uv_closing>>)]_vars

\* C10: the writer receives packets in the order their datagrams were
\* delivered, each datagram at most once, and each forwarded packet was counted
\* with a strictly greater packet_counter_ value than the one before it.
C10_OrderPreserved ==
  /\ [](\A i, j \in 1..Len(written) :
          i < j => written[i].seq < written[j].seq /\ written[i].num < written[j].num)
  /\ [](\A i \in 1..Len(written) : 1 <= written[i].seq /\ written[i].seq <= delivered)
  /\ [][\/ written' = written
        \/ /\ Len(written') = Len(written) + 1
           /\ SubSeq(written', 1, Len(written)) = written
           /\ written'[Len(written')].seq = delivered']_vars

\* C10 witness: a second datagram was forwarded after the first one.
C10_Witness ==
  /\ lastOp = "recv" /\ Len(written) >= 2
  /\ written[Len(written)].seq = delivered
  /\ written[Len(written) - 1].seq = delivered - 1

\* C11: when all four setup steps succeed start() returns true, the handle is
\* initialized, receiving is subscribed, and address() is the address
\* getsockname resolved, which is also what the caller's bind_address holds; a
\* requested port 0 becomes the nonzero port the OS assigned.
C11_StartSucceeds ==
  [][\A os \in OsPorts :
       StartStep(bind_port, os, "none") =>
         /\ lastOp' = "start_ok"
         /\ handle_initialized_' /\ uv_state' = "open" /\ uv_reading'
         /\ address_'.valid
         /\ address_'.port = (IF bind_port = 0 THEN os ELSE bind_port)
         /\ address_'.port # 0
         /\ address_' = start(Cur, bind_port, os, "none").bind_address]_vars

\* C11 witness: a start() on the ephemeral port succeeded.
C11_Witness ==
  /\ lastOp = "start_ok" /\ Active
  /\ bind_port = 0 /\ address(Cur).port \in OsPorts

\* C12: the destructor panics exactly when it runs with the handle still
\* initialized (Active or Closing); run from Idle or Closed, also after a
\* failed start(), it completes.
C12_DestructorPanicsIffInitialized ==
  /\ [][OwnerRelease /\ member = "none" =>
          IF handle_initialized_
          THEN panic' = "destructor: not closed" /\ ~destroyed'
          ELSE panic' = "none" /\ destroyed']_vars
  /\ [][destroyed' /\ ~destroyed => ~handle_initialized_' /\ panic' = "none"]_vars
  /\ [](panic = "destructor: not closed" => handle_initialized_ /\ ~destroyed)

\* C12 witness: the last reference was dropped while the close was in flight.
C12_Witness ==
  lastOp = "release" /\ panic = "destructor: not closed" /\ Closing

\* C13: in every reachable state at most one close of the handle is outstanding,
\* and the handle is never initialized again while a close of it is still in
\* flight, also when start() is retried right after a start() that failed.
C13_OneCloseInFlight ==
  /\ [](Len(uv_closing) <= 1)
  /\ [](~uv_reinit)
  /\ [][\A os \in OsPorts : \A fail \in StartFailures \ {"init"} :
          StartStep(bind_port, os, fail) => uv_closing = <<>>]_vars

\* C14: when start() fails after the handle was initialized, the close of the
\* handle is complete by the time start() returns: the loop holds neither an
\* open nor a closing handle, and nothing of that close is left for later.
C14_FailedStartCloseComplete ==
  lastOp = "start_failed" =>
    /\ uv_state \notin {"open", "closing"}
    /\ uv_closing = <<>>

\* The loop delivers a requested close: weak fairness of the close completion.
FairSpec == Spec /\ WF_vars(UvFinishClose)

\* Fatal errors of the caller's own making, which end the process.
CallerFatal ==
  {"remove: container_ is set", "destructor: not closed", "list: not a member"}

\* C15: with the loop weakly fair in delivering close notifications, every
\* stop() on an Active receiver leads to the handle being not initialized, and
\* every remove(container) on an initialized receiver leads to the receiver
\* being absent from that container.
C15_CloseEventuallyCompletes ==
  /\ (lastOp = "stop" /\ Closing /\ panic = "none")
       ~> (~handle_initialized_ \/ panic \in CallerFatal)
  /\ (lastOp = "remove" /\ RemovalPending /\ panic = "none")
       ~> (member # container_ \/ panic \in CallerFatal)

\* The addresses a successful start() can have bound.
BoundAddresses ==
  {Addr(IF bind_port = 0 THEN os ELSE bind_port) : os \in OsPorts}

\* C16: alloc_cb_ and recv_cb_ run, and packets are written, only while the
\* receiver is Active: once stop() or remove() was called nothing more is
\* delivered for that start, close_cb_ comes last, and every written packet has
\* as destination the non-empty address bound by start().
C16_CallbacksOnlyWhileActive ==
  /\ [][lastOp' \in {"alloc", "recv"} => Active /\ address(Cur) \in BoundAddresses]_vars
  /\ [][written' # written => Active /\ lastOp' = "recv"]_vars
  /\ [](~Active => ~uv_buf.pending)
  /\ [](\A i \in 1..Len(written) :
          written[i].dst_addr.valid /\ written[i].dst_addr \in BoundAddresses)

\* C16 witness: a packet was written, then stop() was called with datagrams
\* still to come, and the close is in flight.
C16_Witness ==
  /\ lastOp = "stop" /\ Closing
  /\ Len(written) = 1 /\ delivered < MaxDatagrams

\* The reference alloc_cb_ added for the I/O that is pending on buffer b.
Pinned(b) == IF uv_buf.pending /\ uv_buf.base = b THEN 1 ELSE 0

\* C17: every buffer leased by alloc_cb_ goes back to the pool exactly once: a
\* completion that drops the datagram leaves its count at 0, a forwarded buffer
\* stays leased while the packet holds its view and goes back when the packet
\* is released; no buffer is free while pinned or referenced, none goes back
\* twice.
C17_BuffersReturnedOnce ==
  /\ [](\A b \in Buffers : ref[b] >= 0)
  /\ [](panic = "none" =>
          \A b \in Buffers : ref[b] = Pinned(b) + SlicesOn(held, written, b))
  /\ [][\A n \in Nreads, sa \in Sockaddrs \cup {NullSockaddr},
           fl \in RecvFlags, ok \in BOOLEAN :
          RecvStep(n, sa, fl, ok, "go") /\ uv_buf.base # 0 /\ panic' = "none" =>
            IF Dropped(n, sa, fl, ok)
            THEN ref'[uv_buf.base] = 0 /\ written' = written /\ held' = held
            ELSE /\ ref'[uv_buf.base] = 1
                 /\ held' = held \cup {Len(written')}
                 /\ written'[Len(written')].data.buf = uv_buf.base]_vars
  /\ [][\A i \in 1..MaxDatagrams :
          ReleaseStep(i) => ref'[written[i].data.buf] = 0 /\ i \notin held']_vars

\* C17 witness: a forwarded buffer went back to the pool when its packet was
\* released, and the pool leased it again.
C17_Witness ==
  /\ lastOp = "alloc" /\ Len(written) = 1 /\ held = {}
  /\ uv_buf.pending /\ uv_buf.base = written[1].data.buf
  /\ ref[uv_buf.base] = 1

\* The cases in which recv_cb_ is meant to end in a fatal error.
FatalCompletion(seen, n, sa, flags) ==
  \/ seen # 2
  \/ n > 0 /\ sa = NullSockaddr
  \/ n > 0 /\ sa # NullSockaddr /\ flags = {} /\ n > BufSize

\* C18: recv_cb_ panics exactly when the recovered buffer's count is not 2, or
\* nread > 0 comes with no source address (partial or not), or a clean complete
\* datagram is longer than the buffer; an I/O error, an empty datagram and a
\* truncated datagram with a source never panic, and nread < 0 with no source
\* address is a discard.
C18_PanicsExactly ==
  [][\A n \in Nreads, sa \in Sockaddrs \cup {NullSockaddr},
        fl \in RecvFlags, ok \in BOOLEAN, ub \in NullReadOutcomes :
       RecvStep(n, sa, fl, ok, ub) =>
         /\ panic' # "none" <=> FatalCompletion(seen_ref', n, sa, fl)
         /\ n < 0 => panic' = "none" /\ written' = written
         /\ n = 0 => panic' = "none"
         /\ (n > 0 /\ sa # NullSockaddr /\ is_partial(fl)) => panic' = "none"]_vars

\* C19 as stated: packet_counter_ never decreases and equals the number of
\* packets written; drops and start/stop/remove/close leave it unchanged.
C19_CounterEqualsWritten ==
  /\ [][packet_counter_' >= packet_counter_]_vars
  /\ [](packet_counter_ = Len(written))
  /\ [][lastOp' # "recv" => packet_counter_' = packet_counter_]_vars

\* C19 as amended: packet_counter_ never decreases and goes up by one exactly in
\* a completion with nread > 0, a source address and no partial flag, before the
\* length check and the packet allocation, so also when that datagram is then
\* dropped because the packet pool is exhausted; it is never below the number
\* of packets written, each written packet carries the counter's value, and
\* every other drop and start/stop/remove/close leave it unchanged.
C19_CounterCountsCleanDatagrams ==
  /\ [][packet_counter_' \in {packet_counter_, packet_counter_ + 1}]_vars
  /\ [][lastOp' # "recv" => packet_counter_' = packet_counter_]_vars
  /\ [][\A n \in Nreads, sa \in Sockaddrs \cup {NullSockaddr},
           fl \in RecvFlags, ok \in BOOLEAN, ub \in NullReadOutcomes :
          RecvStep(n, sa, fl, ok, ub) =>
            /\ packet_counter_' = packet_counter_ + 1
                 <=> (n > 0 /\ sa # NullSockaddr /\ ~is_partial(fl))
            /\ written' # written => written'[Len(written')].num = packet_counter_']_vars
  /\ [](Len(written) <= packet_counter_)

\* C19 witness: a clean datagram was counted and then dropped for want of a
\* packet, so the counter is ahead of the packets written.
C19_Witness ==
  /\ lastOp = "recv" /\ panic = "none"
  /\ packet_counter_ = Len(written) + 1

\* C20: close_cb_ clears handle_initialized_ before it takes the receiver out
\* of the container, so a destructor run from inside that removal sees the
\* handle as not initialized and does not panic.
C20_FlagClearedBeforeRemoval ==
  /\ [][lastOp' = "close_cb_" => panic' # "destructor: not closed"]_vars
  /\ [][lastOp' = "close_cb_" /\ destroyed' /\ ~destroyed =>
          ~handle_initialized_' /\ panic' = "none" /\ member' = "none"]_vars
  /\ [][lastOp' = "close_cb_" /\ member' # member => ~handle_initialized_']_vars

\* C20 witness: close_cb_ removed the receiver from its container, the list held
\* the last reference, and the destructor ran.
C20_Witness ==
  lastOp = "close_cb_" /\ destroyed /\ cbRemoves = 1 /\ panic = "none"

====
